---- MODULE Spec2Model ----
(***************************************************************************)
(* A model of the zellij status line plugin (src/src/main.rs).             *)
(*                                                                         *)
(* Text.  A string is a sequence of items.  An item is a tuple: <<c>> is   *)
(* the grapheme cluster c (every cluster of the model is one code point),  *)
(* and <<"ESC", kind, colour, ...>> is one ANSI SGR escape sequence.       *)
(* display_len strips the escapes and counts the clusters that are left.   *)
(*                                                                         *)
(* Arithmetic.  usize arithmetic is unchecked in the source.  A build with *)
(* overflow checks panics on overflow, a build without them wraps; the     *)
(* variable overflow_checks fixes which build is running.                  *)
(***************************************************************************)
EXTENDS Integers, Sequences, FiniteSets, TLC

\* ------------------------------------------------------------------ bounds
\* Longest tab list the tab layout is built from (layout specification).
MaxTabs == 5
\* Longest tab list a TabUpdate carries (plugin specification).
MaxEventTabs == 2
\* Longest session list a SessionUpdate carries.
MaxSessions == 2
\* Length of the long tab name (long enough for a tab segment to truncate).
LongName == 30
\* Largest max_content_width / min_content_width / content length drawn for
\* the segment rendering specification.
MaxSegWidth == 6

\* ------------------------------------------------------- program constants
\* usize::MAX.  TLC's integers are 32-bit signed, so the model's usize is
\* 31 bits wide; every width of the model is far below either value, so the
\* comparisons come out the same.
UsizeMax == 2147483647
\* Segment::default().max_content_width
DefaultMaxContentWidth == 32
\* .min_width(10) of the mode and session segments
ModeMinWidth == 10
\* .max_width(64) of the clock segment
ClockMaxWidth == 64
\* the three columns of "..."
EllipsisLen == 3

\* ------------------------------------------------------------- usize maths
\* a - b on usize in a build without overflow checks
WrapSub(a, b) == IF a >= b THEN a - b ELSE (UsizeMax - (b - a)) + 1

\* a + b on usize in a build without overflow checks
WrapAdd(a, b) == IF a <= UsizeMax - b THEN a + b ELSE (a - (UsizeMax - b)) - 1

\* ------------------------------------------------------------------- text
\* The string whose clusters are the elements of cs.
Str(cs) == [i \in 1..Len(cs) |-> <<cs[i]>>]

\* One escape sequence.
Esc(kind, colour) == <<"ESC", kind, colour>>

IsEscape(item) == item[1] = "ESC"

IsVisible(item) == ~IsEscape(item)

\* strip_ansi_escapes::strip_str
StripAnsi(s) == SelectSeq(s, IsVisible)

\* DisplayExt::display_len
DisplayLen(s) == Len(StripAnsi(s))

RECURSIVE Concat(_)
\* Concatenation of a sequence of strings (Iterator::collect::<String>).
Concat(ss) == IF ss = <<>> THEN <<>> ELSE Head(ss) \o Concat(Tail(ss))

\* n copies of the cluster c (str::repeat, and the padding of format!).
Repeat(c, n) == [i \in 1..n |-> <<c>>]

DigitChar(d) == <<"0", "1", "2", "3", "4", "5", "6", "7", "8", "9">>[d + 1]

RECURSIVE Digits(_)
\* format!("{}", n) of a usize
Digits(n) == IF n < 10 THEN Str(<<DigitChar(n)>>)
             ELSE Digits(n \div 10) \o Str(<<DigitChar(n % 10)>>)

\* ---------------------------------------------------------------- segment
\* Segment::default() with content and style set.
Segment(content, bg, bold) ==
    [content |-> content, bg |-> bg, bold |-> bold,
     min_content_width |-> 0,
     max_content_width |-> DefaultMaxContentWidth]

\* Segment::min_width
min_width(seg, width) == [seg EXCEPT !.min_content_width = width]

\* Segment::max_width
max_width(seg, width) == [seg EXCEPT !.max_content_width = width]

\* Does rendering the segment overflow max_content_width - 3 ?
SegmentUnderflows(seg) ==
    /\ Len(seg.content) > seg.max_content_width
    /\ seg.max_content_width < EllipsisLen

\* TakeCount without the three columns reserved for the ellipsis.
TakeCountNoReserve(seg) == seg.max_content_width

\* The number handed to take() when the content is truncated, in a build
\* that does not panic.
TakeCount(seg) == WrapSub(seg.max_content_width, EllipsisLen)

\* Iterator::take
Take(s, n) == IF n >= Len(s) THEN s ELSE SubSeq(s, 1, n)

\* The content of the segment after the truncation step.
SegmentContent(seg) ==
    IF Len(seg.content) > seg.max_content_width
    THEN Take(seg.content, TakeCount(seg)) \o Str(<<".", ".", ".">>)
    ELSE seg.content

\* format!("{content:^width$}"): the missing columns are split left/right,
\* the odd one going to the right.
Center(s, width) ==
    IF Len(s) >= width THEN s
    ELSE LET pad == width - Len(s)
         IN  Repeat(" ", pad \div 2) \o s \o Repeat(" ", (pad + 1) \div 2)

\* impl Display for Segment (in a build that does not panic on it)
SegmentFmt(seg) ==
    <<Esc("begin", seg.bg)>>
    \o <<Esc(IF seg.bold THEN "bold" ELSE "style", seg.bg)>>
    \o Str(<<" ">>)
    \o Center(SegmentContent(seg), seg.min_content_width)
    \o Str(<<" ">>)
    \o <<Esc("reset", "none")>>
    \o <<Esc("end", seg.bg)>>

\* ------------------------------------------------------------------- mode
\* zellij_tile's InputMode, the modes the model's ModeUpdate events carry
InputModes == {"RenameTab", "Search"}

\* impl Display for Mode
ModeFmt(m) ==
    CASE m = "Normal"      -> Str(<<"N", "O", "R", "M", "A", "L">>)
      [] m = "Locked"      -> Str(<<"L", "O", "C", "K", "E", "D">>)
      [] m = "Resize"      -> Str(<<"R", "E", "S", "I", "Z", "E">>)
      [] m = "Pane"        -> Str(<<"P", "A", "N", "E">>)
      [] m = "Tab"         -> Str(<<"T", "A", "B">>)
      [] m = "Scroll"      -> Str(<<"S", "C", "R", "O", "L", "L">>)
      [] m = "EnterSearch" -> Str(<<"S", "E", "A", "R", "C", "H">>)
      [] m = "Search"      -> Str(<<"S", "E", "A", "R", "C", "H">>)
      [] m = "RenameTab"   -> Str(<<"T", "A", "B">>)
      [] m = "RenamePane"  -> Str(<<"P", "A", "N", "E">>)
      [] m = "Session"     -> Str(<<"S", "E", "S", "S", "I", "O", "N">>)
      [] m = "Move"        -> Str(<<"M", "O", "V", "E">>)
      [] m = "Prompt"      -> Str(<<"P", "R", "O", "M", "P", "T">>)
      [] m = "Tmux"        -> Str(<<"T", "M", "U", "X">>)

\* Mode::color
ModeColor(m) ==
    CASE m = "Normal" -> "blue"
      [] m = "Locked" -> "gray"
      [] m = "Tmux"   -> "red"
      [] m \in {"Scroll", "EnterSearch", "Search"} -> "magenta"
      [] OTHER -> "yellow"

\* The mode segment built by load and by update: bold, min_width(10).
ModeSegment(m) == min_width(Segment(ModeFmt(m), ModeColor(m), TRUE), ModeMinWidth)

\* The session segment built by load and by update: green, min_width(10).
SessionSegment(name) == min_width(Segment(name, "green", FALSE), ModeMinWidth)

\* ------------------------------------------------------------------- tabs
\* Segment::new_tab
new_tab(tab) ==
    Segment(Digits(tab.position + 1) \o Str(<<" ", " ">>) \o tab.name
              \o Str(<<" ">>)
              \o (IF tab.is_sync_panes_active THEN Str(<<"sync">>) ELSE <<>>)
              \o (IF tab.is_fullscreen_active THEN Str(<<"fullscreen">>) ELSE <<>>),
            IF tab.active THEN "yellow" ELSE "gray", FALSE)

\* Segment::new_compact_tab
new_compact_tab(tab) ==
    IF tab.active THEN new_tab(tab)
    ELSE Segment(Digits(tab.position + 1), "gray", FALSE)

\* Range<usize>::is_empty
RangeIsEmpty(start, end) == ~(start < end)

\* new_range_tab labelling the range with its exclusive end as it stands.
new_range_tab_end_as_is(start, end) ==
    Segment(IF RangeIsEmpty(start, end)
            THEN Digits(WrapAdd(start, 1))
            ELSE Digits(WrapAdd(start, 1)) \o Str(<<" ", " ", "arrow", " ", " ">>)
                   \o Digits(end),
            "gray", FALSE)

\* Segment::new_range_tab(start..end), in a build that does not panic on it
new_range_tab(start, end) ==
    Segment(IF RangeIsEmpty(start, end)
            THEN Digits(WrapAdd(start, 1))
            ELSE Digits(WrapAdd(start, 1)) \o Str(<<" ", " ", "arrow", " ", " ">>)
                   \o Digits(WrapAdd(end, 1)),
            "gray", FALSE)

\* impl Display for Segments
SegmentsFmt(segs) == Concat([i \in 1..Len(segs) |-> SegmentFmt(segs[i])])

\* Tabs::new panics on `inner.len() - 1` when the list is empty and the
\* build checks overflow.
TabsNewPanics(inner, checked) == checked /\ Len(inner) = 0

\* inner.iter().find(|x| x.active): the index of the first active tab, 0 if none
FindActive(inner) ==
    IF \E i \in 1..Len(inner) : inner[i].active
    THEN CHOOSE i \in 1..Len(inner) :
            /\ inner[i].active
            /\ \A j \in 1..(i - 1) : ~inner[j].active
    ELSE 0

\* The segments of the fold tier, as Tabs::new builds them.
FoldSegments(inner) ==
    LET last == WrapSub(Len(inner), 1)
        a    == FindActive(inner)
    IN  IF a # 0
        THEN LET active == inner[a]
                 active_segment == new_tab(active)
             IN  IF active.position = 0
                 THEN <<active_segment, new_range_tab(1, last)>>
                 ELSE IF active.position = last
                 THEN <<new_range_tab(0, WrapSub(last, 1)), active_segment>>
                 ELSE <<new_range_tab(0, WrapSub(active.position, 1)),
                        active_segment,
                        new_range_tab(WrapAdd(active.position, 1), last)>>
        ELSE <<new_range_tab(0, last)>>

\* The fold tier as the Tabs::new of tabs.rs builds it (a module main.rs
\* does not declare, so PluginState does not use it).
TabsRsFold(inner) ==
    LET last == WrapSub(Len(inner), 1)
        a    == FindActive(inner)
    IN  IF a # 0
        THEN LET active == inner[a]
                 s0 == SegmentFmt(new_tab(active))
                 s1 == IF active.position # 0
                       THEN SegmentFmt(new_range_tab(0, WrapSub(active.position, 1))) \o s0
                       ELSE s0
             IN  IF active.position # last
                 THEN s1 \o SegmentFmt(new_range_tab(WrapAdd(active.position, 1), last))
                 ELSE s1
        ELSE SegmentFmt(new_range_tab(0, last))

\* Tabs::new, in a build that does not panic on it
TabsNew(inner) ==
    LET full    == SegmentsFmt([i \in 1..Len(inner) |-> new_tab(inner[i])])
        compact == SegmentsFmt([i \in 1..Len(inner) |-> new_compact_tab(inner[i])])
        fold    == SegmentsFmt(FoldSegments(inner))
    IN  [max_width |-> UsizeMax,
         full      |-> <<DisplayLen(full), full>>,
         compact   |-> <<DisplayLen(compact), compact>>,
         fold      |-> <<DisplayLen(fold), fold>>]

\* #[derive(Default)] for Tabs
TabsDefault ==
    [max_width |-> 0, full |-> <<0, <<>>>>, compact |-> <<0, <<>>>>,
     fold |-> <<0, <<>>>>]

\* TabsTier with a tier selected as soon as its width equals the budget.
TabsTierTiesFit(t) ==
    IF t.max_width >= t.full[1] THEN "full"
    ELSE IF t.max_width >= t.compact[1] THEN "compact"
    ELSE "fold"

\* impl Display for Tabs: the tier the budget selects
TabsTier(t) ==
    IF t.max_width > t.full[1] THEN "full"
    ELSE IF t.max_width > t.compact[1] THEN "compact"
    ELSE "fold"

\* impl Display for Tabs
TabsFmt(t) ==
    CASE TabsTier(t) = "full"    -> t.full[2]
      [] TabsTier(t) = "compact" -> t.compact[2]
      [] TabsTier(t) = "fold"    -> t.fold[2]

\* ------------------------------------------------------------------ clock
\* The instants at which the model reads the clock: seconds after
\* 2026-11-06T12:00:00Z.
Times == {7}

\* Clock::new: the time zone the clock ends up with, UTC unless the
\* configured string parses.
ClockTz(config) ==
    IF config.timezone = "Europe/Warsaw" THEN "Europe/Warsaw" ELSE "UTC"

\* impl Display for Clock at instant t: "<glyph> %Y-%m-%dT%H:%M:%S%:z  epoch: %s"
ClockFmt(tz, t) ==
    Str(<<"clock", " ", "2", "0", "2", "6", "-", "1", "1", "-", "0", "6", "T">>)
    \o Str(IF tz = "UTC" THEN <<"1", "2">> ELSE <<"1", "3">>)
    \o Str(<<":", "0", "0", ":", "0">>) \o Digits(t)
    \o Str(IF tz = "UTC" THEN <<"+", "0", "0", ":", "0", "0">>
                         ELSE <<"+", "0", "1", ":", "0", "0">>)
    \o Str(<<" ", " ", "e", "p", "o", "c", "h", ":", " ">>)
    \o Digits(1793966400 + t)

\* The clock segment built by load, showing the clock's text at instant t.
ClockSegment(tz, t) == max_width(Segment(ClockFmt(tz, t), "white", FALSE), ClockMaxWidth)

\* ----------------------------------------------------------------- inputs
\* The configurations load is called with (the "timezone" key; "" = absent).
Configs == {[timezone |-> "Europe/Warsaw"]}

ShortName == Str(<<"t">>)

MainSession == Str(<<"m", "a", "i", "n">>)

SessionNames == {MainSession, Str(<<"w", "k">>)}

SessionInfos == [name : SessionNames, is_current_session : BOOLEAN]

\* The session lists a SessionUpdate carries: sessions of distinct names,
\* "main" listed first, any of them flagged current.
SessionLists ==
    {s \in UNION {[1..n -> SessionInfos] : n \in 0..MaxSessions} :
        \A i, j \in 1..Len(s) :
            i < j => (s[i].name = MainSession /\ s[j].name # MainSession)}

\* The tab list of n tabs at positions 0..n-1, the tab at index a active
\* (a = 0: none).  long: the tabs at even positions carry a long name.
\* marks: every tab has sync on and the active tab is fullscreen.
MkTabs(n, a, long, marks) ==
    [i \in 1..n |->
        [position |-> i - 1,
         name |-> IF long /\ (i - 1) % 2 = 0 THEN Repeat("x", LongName) ELSE ShortName,
         active |-> (i = a),
         is_sync_panes_active |-> marks,
         is_fullscreen_active |-> marks /\ (i = a)]]

\* The tab lists the tab layout is built from (layout specification).
TabLists ==
    {MkTabs(n, a, long, marks) :
        n \in 0..MaxTabs, a \in 0..MaxTabs, long \in BOOLEAN, marks \in BOOLEAN}

\* The tab lists a TabUpdate carries (plugin specification): none of the
\* tabs active, or the last one, or the last one with long names and marks.
EventTabLists ==
    {MkTabs(n, IF v = "none" THEN 0 ELSE n, v = "long", v = "long") :
        n \in 0..MaxEventTabs, v \in {"none", "last", "long"}}

RECURSIVE SumDisplayLen(_)
\* The sum of display_len over a sequence of strings.
SumDisplayLen(ss) ==
    IF ss = <<>> THEN 0 ELSE DisplayLen(Head(ss)) + SumDisplayLen(Tail(ss))

\* ------------------------------------------------------------------ state
VARIABLES
    overflow_checks,  \* the build panics on integer overflow (else it wraps)
    loaded,           \* load has run
    panicked,         \* a handler panicked: the plugin is dead
    config,           \* PluginState.config
    mode,             \* PluginState.mode: the shared cell's string
    session,          \* PluginState.session: the shared cell's string
    tabs,             \* PluginState.tabs
    left_elements,    \* PluginState.left_elements
    right_elements,   \* PluginState.right_elements
    call,             \* the handler that ran last
    cols,             \* the cols argument of the render that ran last
    ret,              \* what the update that ran last returned
    event,            \* the event the handler that ran last was called with
    out,              \* what the handler that ran last printed, one string per print!
    seenMode,         \* the mode of the last ModeUpdate
    seenSession,      \* the current session's name in the last SessionUpdate that had one
    seenTabs,         \* the tab list of the last TabUpdate
    seg,              \* a segment under construction (segment specification)
    seg_state,        \* "new", "rendered" or "panicked"
    seg_out           \* what rendering seg produced

progVars == <<loaded, panicked, config, mode, session, tabs, left_elements,
              right_elements, call, cols, ret, event, out, seenMode,
              seenSession, seenTabs>>

segVars == <<seg, seg_state, seg_out>>

vars == <<overflow_checks, progVars, segVars>>

\* The Event update is called with.  Only a SessionUpdate's list is kept;
\* render and load are called with no event.
NoEvent == [kind |-> "none", sessions |-> <<>>]

ModeUpdate == [kind |-> "ModeUpdate", sessions |-> <<>>]

SessionUpdate(sessions) == [kind |-> "SessionUpdate", sessions |-> sessions]

TabUpdate == [kind |-> "TabUpdate", sessions |-> <<>>]

OtherEvent == [kind |-> "Other", sessions |-> <<>>]

\* PluginState::default()
InitProgram ==
    /\ overflow_checks \in BOOLEAN
    /\ loaded = FALSE
    /\ panicked = FALSE
    /\ config = [timezone |-> ""]
    /\ mode = <<>>
    /\ session = <<>>
    /\ tabs = TabsDefault
    /\ left_elements = <<>>
    /\ right_elements = <<>>
    /\ call = "none"
    /\ cols = 0
    /\ ret = FALSE
    /\ event = NoEvent
    /\ out = <<>>
    /\ seenMode = "none"
    /\ seenSession = [has |-> FALSE, name |-> <<>>]
    /\ seenTabs = [has |-> FALSE, inner |-> <<>>]

\* No segment is under construction.
InitNoSegment ==
    /\ seg = Segment(<<>>, "gray", FALSE)
    /\ seg_state = "rendered"
    /\ seg_out = <<>>

Init == InitProgram /\ InitNoSegment

\* ---------------------------------------------------------------- actions
DefaultSessionName == Str(<<"d", "e", "f", "a", "u", "l", "t">>)

\* An element of left_elements: a handle on the shared mode cell, or a
\* string rendered once and for all.
SharedMode == [shared |-> TRUE, text |-> <<>>]

Rendered(text) == [shared |-> FALSE, text |-> text]

\* Display of an element of left_elements.
LeftFmt(e) == IF e.shared THEN mode ELSE e.text

\* PluginState::load.  (request_permission, subscribe and set_selectable are
\* calls into the host and leave the plugin's state alone.)
Load(configuration) ==
    /\ ~loaded /\ ~panicked
    /\ loaded' = TRUE
    /\ config' = configuration
    /\ session' = DefaultSessionName
    /\ mode' = SegmentFmt(ModeSegment("Normal"))
    /\ left_elements' = left_elements
          \o <<SharedMode, Rendered(SegmentFmt(SessionSegment(DefaultSessionName)))>>
    /\ right_elements' = right_elements \o <<[tz |-> ClockTz(configuration)]>>
    /\ call' = "load"
    /\ event' = NoEvent
    /\ out' = <<>>
    /\ UNCHANGED <<overflow_checks, panicked, tabs, cols, ret, seenMode,
                   seenSession, seenTabs, segVars>>

\* PluginState::update, Event::ModeUpdate
UpdateMode(m) ==
    /\ loaded /\ ~panicked
    /\ mode' = SegmentFmt(ModeSegment(m))
    /\ ret' = TRUE
    /\ call' = "update"
    /\ event' = ModeUpdate
    /\ cols' = 0
    /\ out' = <<>>
    /\ seenMode' = m
    /\ UNCHANGED <<overflow_checks, loaded, panicked, config, session, tabs,
                   left_elements, right_elements, seenSession, seenTabs,
                   segVars>>

\* The index of the first session flagged current, 0 if there is none.
FirstCurrent(sessions) ==
    IF \E i \in 1..Len(sessions) : sessions[i].is_current_session
    THEN CHOOSE i \in 1..Len(sessions) :
            /\ sessions[i].is_current_session
            /\ \A j \in 1..(i - 1) : ~sessions[j].is_current_session
    ELSE 0

\* PluginState::update, Event::SessionUpdate
UpdateSession(sessions) ==
    /\ loaded /\ ~panicked
    /\ LET i == FirstCurrent(sessions)
       IN  IF i # 0
           THEN /\ session' = SegmentFmt(SessionSegment(sessions[i].name))
                /\ ret' = TRUE
                /\ seenSession' = [has |-> TRUE, name |-> sessions[i].name]
           ELSE /\ ret' = FALSE
                /\ UNCHANGED <<session, seenSession>>
    /\ event' = SessionUpdate(sessions)
    /\ call' = "update"
    /\ cols' = 0
    /\ out' = <<>>
    /\ UNCHANGED <<overflow_checks, loaded, panicked, config, mode, tabs,
                   left_elements, right_elements, seenMode, seenTabs,
                   segVars>>

\* PluginState::update, Event::TabUpdate
UpdateTabs(inner) ==
    /\ loaded /\ ~panicked
    /\ seenTabs' = [has |-> TRUE, inner |-> inner]
    /\ event' = TabUpdate
    /\ call' = "update"
    /\ cols' = 0
    /\ out' = <<>>
    /\ IF TabsNewPanics(inner, overflow_checks)
       THEN /\ panicked' = TRUE
            /\ UNCHANGED <<tabs, ret>>
       ELSE /\ tabs' = TabsNew(inner)
            /\ ret' = TRUE
            /\ UNCHANGED panicked
    /\ UNCHANGED <<overflow_checks, loaded, config, mode, session,
                   left_elements, right_elements, seenMode, seenSession,
                   segVars>>

\* PluginState::update, any other event
UpdateOther ==
    /\ loaded /\ ~panicked
    /\ ret' = FALSE
    /\ event' = OtherEvent
    /\ call' = "update"
    /\ cols' = 0
    /\ out' = <<>>
    /\ UNCHANGED <<overflow_checks, loaded, panicked, config, mode, session,
                   tabs, left_elements, right_elements, seenMode,
                   seenSession, seenTabs, segVars>>

\* The widths render adds up before it sets the tabs' budget: the left
\* elements', then the right elements' (the clock read at instant t).
FixedWidth(t) ==
    SumDisplayLen([i \in 1..Len(left_elements) |-> LeftFmt(left_elements[i])])
    + SumDisplayLen([i \in 1..Len(right_elements) |->
                        SegmentFmt(ClockSegment(right_elements[i].tz, t))])

\* The budget set on a layout rebuilt from nothing: the tiers are lost.
SetBudgetOnFreshTabs(t, b) == [TabsDefault EXCEPT !.max_width = b]

\* self.tabs.max_width = b
SetBudget(t, b) == [t EXCEPT !.max_width = b]

\* `cols - chars` of render, in a build that does not panic on it
Budget(c, chars) == WrapSub(c, chars)

\* Filler one dash short.
FillerOneShort(c, chars) ==
    IF chars < c
    THEN <<<<Esc("fill", "black")>> \o Repeat("-", (c - chars) - 1)>>
    ELSE <<>>

\* The filler render prints after the tabs: cols - chars dashes when
\* chars < cols, nothing otherwise.
Filler(c, chars) ==
    IF chars < c
    THEN <<<<Esc("fill", "black")>> \o Repeat("-", c - chars)>>
    ELSE <<>>

\* PluginState::render(_, c), which reads the clock at t1 to measure the
\* right elements and at t2 to print them
Render(c, t1, t2) ==
    /\ loaded /\ ~panicked
    /\ call' = "render"
    /\ event' = NoEvent
    /\ cols' = c
    /\ LET leftOut  == [i \in 1..Len(left_elements) |-> LeftFmt(left_elements[i])]
           rightOut == [i \in 1..Len(right_elements) |->
                           SegmentFmt(ClockSegment(right_elements[i].tz, t2))]
           chars1   == FixedWidth(t1)
       IN  IF overflow_checks /\ chars1 > c
           THEN /\ panicked' = TRUE
                /\ out' = leftOut
                /\ UNCHANGED tabs
           ELSE LET t       == SetBudget(tabs, Budget(c, chars1))
                    tabsOut == TabsFmt(t)
                    chars2  == chars1 + DisplayLen(tabsOut)
                    fill    == Filler(c, chars2)
                IN  /\ tabs' = t
                    /\ out' = leftOut \o <<tabsOut>> \o fill \o rightOut
                    /\ UNCHANGED panicked
    /\ UNCHANGED <<overflow_checks, loaded, config, mode, session,
                   left_elements, right_elements, ret, seenMode, seenSession,
                   seenTabs, segVars>>

\* The widths the model calls render with: 0, a very wide terminal, the
\* fixed elements alone, and the fixed elements with the fold tier, with the
\* full tier, and with the full tier and one column more.  (The budgets on
\* both sides of every tier are tried in the layout specification.)
WideCols == 160

ColsToTry ==
    LET fixed == FixedWidth(CHOOSE t \in Times : TRUE)
    IN  {0, WideCols, fixed, fixed + tabs.fold[1], fixed + tabs.full[1],
         fixed + tabs.full[1] + 1}

Next ==
    \/ \E configuration \in Configs : Load(configuration)
    \/ \E m \in InputModes : UpdateMode(m)
    \/ \E sessions \in SessionLists : UpdateSession(sessions)
    \/ \E inner \in EventTabLists : UpdateTabs(inner)
    \/ UpdateOther
    \/ \E c \in ColsToTry, t1 \in Times, t2 \in Times : Render(c, t1, t2)

Spec == Init /\ [][Next]_vars

\* ------------------------------------------------- layout specification
\* Tabs::new and Display for Tabs on their own: the layout is built from any
\* tab list of TabLists and displayed under any budget.

\* self.tabs = Tabs::new(inner)
NewTabs(inner) ==
    /\ ~panicked
    /\ seenTabs' = [has |-> TRUE, inner |-> inner]
    /\ call' = "new"
    /\ out' = <<>>
    /\ IF TabsNewPanics(inner, overflow_checks)
       THEN /\ panicked' = TRUE
            /\ UNCHANGED tabs
       ELSE /\ tabs' = TabsNew(inner)
            /\ UNCHANGED panicked
    /\ UNCHANGED <<overflow_checks, loaded, config, mode, session,
                   left_elements, right_elements, cols, ret, event, seenMode,
                   seenSession, segVars>>

\* self.tabs.max_width = b; print!("{}", self.tabs)
DisplayTabs(b) ==
    /\ ~panicked
    /\ seenTabs.has
    /\ tabs' = SetBudget(tabs, b)
    /\ out' = <<TabsFmt(tabs')>>
    /\ call' = "display"
    /\ UNCHANGED <<overflow_checks, loaded, panicked, config, mode, session,
                   left_elements, right_elements, cols, ret, event, seenMode,
                   seenSession, seenTabs, segVars>>

\* The budgets the layout is displayed under: the extremes and both sides
\* of each tier's width.
BudgetsToTry ==
    {0, UsizeMax} \cup
    {w + d : w \in {tabs.full[1], tabs.compact[1], tabs.fold[1]}, d \in {0, 1}}

TabsNext ==
    \/ \E inner \in TabLists : NewTabs(inner)
    \/ \E b \in BudgetsToTry : DisplayTabs(b)

TabsSpec == Init /\ [][TabsNext]_vars

\* ------------------------------------------------ segment specification
\* A segment is constructed, configured through min_width and max_width
\* with any widths, and rendered.

Letter(i) == <<"a", "b", "c", "d", "e", "f", "g", "h", "i", "j">>[((i - 1) % 10) + 1]

\* A content of k distinct clusters.
Content(k) == [i \in 1..k |-> <<Letter(i)>>]

InitSegment ==
    /\ seg \in {Segment(Content(k), "gray", FALSE) : k \in 0..MaxSegWidth}
    /\ seg_state = "new"
    /\ seg_out = <<>>

\* seg = seg.min_width(width)
SetMinWidth(width) ==
    /\ seg_state = "new"
    /\ seg' = min_width(seg, width)
    /\ UNCHANGED <<overflow_checks, progVars, seg_state, seg_out>>

\* seg = seg.max_width(width)
SetMaxWidth(width) ==
    /\ seg_state = "new"
    /\ seg' = max_width(seg, width)
    /\ UNCHANGED <<overflow_checks, progVars, seg_state, seg_out>>

\* seg.to_string()
FmtSegment ==
    /\ seg_state = "new"
    /\ IF overflow_checks /\ SegmentUnderflows(seg)
       THEN /\ seg_state' = "panicked"
            /\ UNCHANGED seg_out
       ELSE /\ seg_state' = "rendered"
            /\ seg_out' = SegmentFmt(seg)
    /\ UNCHANGED <<overflow_checks, progVars, seg>>

SegNext ==
    \/ \E width \in 0..MaxSegWidth : SetMinWidth(width)
    \/ \E width \in 0..MaxSegWidth : SetMaxWidth(width)
    \/ FmtSegment

SegInit == InitProgram /\ InitSegment

SegSpec == SegInit /\ [][SegNext]_vars

\* ================================================================ claims
\* What a segment with the given content shows once the escapes are
\* stripped: a space, the content centred in min columns, a space.
Shows(text, content, min) ==
    StripAnsi(text) = Str(<<" ">>) \o Center(content, min) \o Str(<<" ">>)

\* The range segment labelled with the 1-based positions first..last of the
\* tabs it collapses, a single number when it collapses one tab.
RangeSegment(first, last) ==
    Segment(IF first = last THEN Digits(first)
            ELSE Digits(first) \o Str(<<" ", " ", "arrow", " ", " ">>) \o Digits(last),
            "gray", FALSE)

\* The fold tier C6 describes for the tab list inner, as segments.
ExpectedFold(inner) ==
    LET n == Len(inner)
        a == FindActive(inner)
    IN  IF a = 0 THEN <<RangeSegment(1, n)>>
        ELSE (IF a > 1 THEN <<RangeSegment(1, a - 1)>> ELSE <<>>)
             \o <<new_tab(inner[a])>>
             \o (IF a < n THEN <<RangeSegment(a + 1, n)>> ELSE <<>>)

\* The widths of the fixed elements a completed render printed: the two left
\* elements and the right element around the tabs and the filler.
PrintedFixedWidth == DisplayLen(out[1]) + DisplayLen(out[2]) + DisplayLen(out[Len(out)])

RenderDone == call = "render" /\ ~panicked

\* C1: every render displays the latest values: the label of the last
\* ModeUpdate, the name of the session flagged current in the last
\* SessionUpdate that had one, and a tier of the layout built from the last
\* TabUpdate.
C1_RenderShowsLatest ==
    RenderDone =>
        /\ seenMode # "none" => Shows(out[1], ModeFmt(seenMode), ModeMinWidth)
        /\ seenSession.has => Shows(out[2], seenSession.name, ModeMinWidth)
        /\ seenTabs.has =>
              LET t == TabsNew(seenTabs.inner)
              IN  out[3] \in {t.full[2], t.compact[2], t.fold[2]}

\* C2 as stated: whenever total_width is at least the left and right
\* widths, everything render emits is exactly total_width wide.
C2_WidthEqualsTotal ==
    (RenderDone /\ cols >= PrintedFixedWidth) => SumDisplayLen(out) = cols

\* C2 (amended): whenever total_width is at least the left and right widths
\* plus the width of the tab tier render selects, everything render emits is
\* exactly total_width wide.
C2_WidthEqualsTotalWhenTabsFit ==
    (RenderDone /\ cols >= PrintedFixedWidth + DisplayLen(out[3]))
        => SumDisplayLen(out) = cols

\* A render of a non-empty tab tier that fits, completed by a filler.
C2_Witness ==
    /\ RenderDone
    /\ Len(out) = 5
    /\ DisplayLen(out[3]) > 0
    /\ cols >= PrintedFixedWidth + DisplayLen(out[3])

\* C3: render never panics, and the budget it sets is total_width minus the
\* left and right widths, or zero when they exceed total_width.
C3_BudgetClamped ==
    call = "render" =>
        /\ ~panicked
        /\ LET fixed == FixedWidth(CHOOSE t \in Times : TRUE)
           IN  tabs.max_width = IF cols >= fixed THEN cols - fixed ELSE 0

\* C4: the tier displayed under budget B is full iff B > full.width, else
\* compact iff B > compact.width, else fold.
C4_TierSelection ==
    call = "display" =>
        LET B == tabs.max_width
        IN  /\ B > tabs.full[1] => out[1] = tabs.full[2]
            /\ (B <= tabs.full[1] /\ B > tabs.compact[1]) => out[1] = tabs.compact[2]
            /\ (B <= tabs.full[1] /\ B <= tabs.compact[1]) => out[1] = tabs.fold[2]

\* A budget equal to the full tier's width displays the compact tier.
C4_Witness ==
    /\ call = "display"
    /\ tabs.max_width = tabs.full[1]
    /\ tabs.full[1] > tabs.compact[1]
    /\ out[1] = tabs.compact[2]
    /\ out[1] # tabs.full[2]

\* C5: the layout of a non-empty tab list has
\* full.width >= compact.width >= fold.width.
C5_TierMonotonicity ==
    (seenTabs.has /\ ~panicked /\ Len(seenTabs.inner) >= 1) =>
        /\ tabs.full[1] >= tabs.compact[1]
        /\ tabs.compact[1] >= tabs.fold[1]

\* C6: the fold tier of a list of n >= 2 tabs is the leading range (iff the
\* active tab is not the first), the active tab in full form, the trailing
\* range (iff it is not the last), or one range over all tabs when none is
\* active; each range is labelled with the 1-based positions it collapses.
C6_FoldShape ==
    (seenTabs.has /\ ~panicked /\ Len(seenTabs.inner) >= 2) =>
        tabs.fold[2] = SegmentsFmt(ExpectedFold(seenTabs.inner))

\* A layout of five tabs, the third active: both ranges collapse two tabs.
C6_Witness ==
    /\ seenTabs.has /\ ~panicked
    /\ Len(seenTabs.inner) = 5
    /\ FindActive(seenTabs.inner) = 3
    /\ tabs.fold[2] = SegmentsFmt(<<RangeSegment(1, 2), new_tab(seenTabs.inner[3]),
                                    RangeSegment(4, 5)>>)

\* C7: the fold tier of a list of one tab is the active-tab segment alone
\* when the tab is active, and the range segment "1" when it is not.
C7_SingleTabFold ==
    (seenTabs.has /\ ~panicked /\ Len(seenTabs.inner) = 1) =>
        tabs.fold[2] = IF seenTabs.inner[1].active
                       THEN SegmentFmt(new_tab(seenTabs.inner[1]))
                       ELSE SegmentFmt(RangeSegment(1, 1))

\* C8: building the layout from an empty tab list completes without error
\* and every tier is the empty string of width 0.
C8_EmptyListEmptyLayout ==
    (seenTabs.has /\ Len(seenTabs.inner) = 0) =>
        /\ ~panicked
        /\ tabs.full = <<0, <<>>>>
        /\ tabs.compact = <<0, <<>>>>
        /\ tabs.fold = <<0, <<>>>>

\* C9: a rendered segment whose content is wider than max_content_width
\* (which leaves room for the ellipsis) shows the first max_content_width - 3
\* clusters followed by "...", max_content_width columns in all; a content
\* that is not wider is shown whole.
C9_Truncation ==
    (seg_state = "rendered" /\ seg.max_content_width >= EllipsisLen) =>
        LET max   == seg.max_content_width
            shown == IF Len(seg.content) > max
                     THEN SubSeq(seg.content, 1, max - 3) \o Str(<<".", ".", ".">>)
                     ELSE seg.content
        IN  /\ Shows(seg_out, shown, seg.min_content_width)
            /\ Len(seg.content) > max => Len(shown) = max

\* A rendered segment that truncated its content to two clusters and "...".
C9_Witness ==
    /\ seg_state = "rendered"
    /\ seg.max_content_width = 5
    /\ Len(seg.content) = 6
    /\ seg.min_content_width = 0
    /\ StripAnsi(seg_out) = Str(<<" ", "a", "b", ".", ".", ".", " ">>)

\* C10: rendering a segment whose max_content_width is below 3 never
\* underflows max_content_width - 3: it does not panic, and the content is
\* shown whole (truncation skipped) or cut with the width clamped.
C10_NoUnderflow ==
    /\ seg_state # "panicked"
    /\ (seg_state = "rendered" /\ SegmentUnderflows(seg)) =>
          \/ Shows(seg_out, seg.content, seg.min_content_width)
          \/ \E k \in 0..seg.max_content_width :
                \/ Shows(seg_out, SubSeq(seg.content, 1, k), seg.min_content_width)
                \/ Shows(seg_out, SubSeq(seg.content, 1, k) \o Str(<<".", ".", ".">>),
                         seg.min_content_width)

\* The three cached tiers of a layout: everything but the budget.
Tiers(t) == <<t.full, t.compact, t.fold>>

\* C11: the three tiers are computed when the layout is built from a tab
\* list and cached: whatever renders and other events came since, they are
\* the empty tiers of the default layout before the first TabUpdate, and
\* afterwards all three are the ones derived from the tab list of the last
\* TabUpdate alone; a render changes the budget only.
C11_TiersCached ==
    /\ ~seenTabs.has => Tiers(tabs) = Tiers(TabsDefault)
    /\ (seenTabs.has /\ ~panicked) => Tiers(tabs) = Tiers(TabsNew(seenTabs.inner))

\* A render that set a budget on a layout built from a non-empty tab list
\* and left its tiers as the TabUpdate built them.
C11_Witness ==
    /\ call = "render" /\ ~panicked
    /\ seenTabs.has
    /\ Len(seenTabs.inner) >= 1
    /\ tabs.max_width # UsizeMax
    /\ tabs.full[1] > 0
    /\ Tiers(tabs) = Tiers(TabsNew(seenTabs.inner))

\* Some session of the list is flagged current.
HasCurrent(sessions) == \E i \in 1..Len(sessions) : sessions[i].is_current_session

\* The name of the first session of the list flagged current.
FirstCurrentName(sessions) ==
    sessions[CHOOSE i \in 1..Len(sessions) :
                /\ sessions[i].is_current_session
                /\ \A j \in 1..Len(sessions) : sessions[j].is_current_session => i <= j].name

\* What C12 says of an update that was called with the event e: what it
\* returns and, for a SessionUpdate with a current session, the session text.
UpdateReturned(e, returned, r, sessionText) ==
    /\ e.kind \in {"ModeUpdate", "TabUpdate"} => (returned /\ r = TRUE)
    /\ e.kind = "SessionUpdate" =>
          /\ returned
          /\ r = HasCurrent(e.sessions)
          /\ HasCurrent(e.sessions) =>
                Shows(sessionText, FirstCurrentName(e.sessions), ModeMinWidth)
    /\ e.kind = "Other" => (returned /\ r = FALSE)

\* C12: update returns true for every ModeUpdate and every TabUpdate, true
\* for a SessionUpdate iff its list has a session flagged current (the first
\* of them supplies the session text), false for every other event; and an
\* update that returns false leaves the mode text, the session text and the
\* tab layout unchanged.
C12_UpdateReturn ==
    [][call' = "update" =>
          /\ UpdateReturned(event', ~panicked', ret', session')
          /\ (~panicked' /\ ret' = FALSE) =>
                (mode' = mode /\ session' = session /\ tabs' = tabs)]_vars

\* C12 for the updates that return: what is left of it once the panic of
\* Tabs::new on the empty tab list (C8) is set aside.
UpdateReturnUnlessPanic ==
    [][(call' = "update" /\ ~panicked') =>
          /\ UpdateReturned(event', TRUE, ret', session')
          /\ ret' = FALSE =>
                (mode' = mode /\ session' = session /\ tabs' = tabs)]_vars

\* The fold tier of tabs.rs is the one C7 describes for a single tab, and is
\* the fold tier of main.rs for every longer list.
TabsRsFoldCompared ==
    (seenTabs.has /\ ~panicked /\ Len(seenTabs.inner) >= 1) =>
        /\ Len(seenTabs.inner) >= 2 => TabsRsFold(seenTabs.inner) = tabs.fold[2]
        /\ Len(seenTabs.inner) = 1 =>
              TabsRsFold(seenTabs.inner) =
                 IF seenTabs.inner[1].active
                 THEN SegmentFmt(new_tab(seenTabs.inner[1]))
                 ELSE SegmentFmt(RangeSegment(1, 1))

====
